---- MODULE Spec2Model ----
(***************************************************************************)
(* Model of app.py: the reconciliation of a write-offs ledger against a    *)
(* repayments ledger on the last nine digits of a phone number.            *)
(*                                                                         *)
(* Text is a sequence of characters; a character is a one-character string *)
(* ("7", "-"), or the name of its code point when it is not ASCII          *)
(* ("U+0667" is ARABIC-INDIC DIGIT SEVEN).  A value is a record tagged by  *)
(* its Python type: missing (None, float nan, pd.NA), str, int or float.   *)
(* Amounts are integer valued, so that float sums are exact.               *)
(***************************************************************************)
EXTENDS Integers, Sequences, FiniteSets, TLC

VARIABLES
    nvalue,         \* the argument of a call of extract_last_nine_digits
    nresult,        \* what the call returned
    npc,            \* "call" | "returned" | "idle"
    pc,             \* position of main()
    disk,           \* the files next to app.py: name -> table, or NoFile
    loaded,         \* the objects load_data returned (held by the cache)
    repayments_df,  \* main's local repayments_df
    writeoffs_df,   \* main's local writeoffs_df
    counts,         \* phone_last9_counts
    sums,           \* phone_last9_amount_sums
    kpi,            \* num_writeoffs, total_written_off, total_repaid, percent
    ui              \* the streamlit calls made so far, in order

nvars == <<nvalue, nresult, npc>>
mvars == <<pc, disk, loaded, repayments_df, writeoffs_df, counts, sums, kpi, ui>>
vars == <<nvalue, nresult, npc, pc, disk, loaded, repayments_df, writeoffs_df,
          counts, sums, kpi, ui>>

(***************************************************************************)
(* Bounds of the model.                                                    *)
(***************************************************************************)
MaxChunks == 4
MaxRep == 2
MaxWo == 2

(***************************************************************************)
(* Characters.                                                             *)
(***************************************************************************)
AsciiDigits == {"0", "1", "2", "3", "4", "5", "6", "7", "8", "9"}

\* Characters of Unicode category Nd outside ASCII (a sample of them).
UnicodeDigits == {"U+0660", "U+0667"}

DigitChars == <<"0", "1", "2", "3", "4", "5", "6", "7", "8", "9">>

Max(a, b) == IF a >= b THEN a ELSE b

Abs(n) == IF n < 0 THEN -n ELSE n

\* What the pattern \d matches in a str pattern: any Unicode decimal digit.
re_d(c) == c \in AsciiDigits \cup UnicodeDigits

\* What the pattern \D matches: the opposite of \d.
re_D(c) == ~re_d(c)

(***************************************************************************)
(* Values and str(value).                                                  *)
(***************************************************************************)
NaN == [kind |-> "nan"]

PyStr(s) == [kind |-> "str", text |-> s]

PyInt(n) == [kind |-> "int", n |-> n]

\* A finite float: (-1)^neg * 0.sig * 10^decpt, sig its shortest repr digits.
PyFloat(neg, sig, decpt) == [kind |-> "float", neg |-> neg, sig |-> sig, decpt |-> decpt]

pd_isna(value) == value.kind = "nan"

RECURSIVE NatText(_)
NatText(n) ==
    IF n < 10 THEN <<DigitChars[n + 1]>>
    ELSE NatText(n \div 10) \o <<DigitChars[(n % 10) + 1]>>

IntText(n) == IF n < 0 THEN <<"-">> \o NatText(-n) ELSE NatText(n)

DigitsText(ds) == [i \in 1..Len(ds) |-> DigitChars[ds[i] + 1]]

Zeros(k) == [i \in 1..k |-> "0"]

\* repr of a float (CPython, shortest repr): fixed notation while
\* -4 < decpt <= 16, exponent notation otherwise.
FloatText(f) ==
    LET n == Len(f.sig)
        sign == IF f.neg THEN <<"-">> ELSE <<>>
        e == f.decpt - 1
        etext == (IF e < 0 THEN <<"-">> ELSE <<"+">>)
                 \o (IF Abs(e) < 10 THEN <<"0">> ELSE <<>>) \o NatText(Abs(e))
        body ==
            IF f.decpt > 16 \/ f.decpt <= -4
            THEN DigitsText(SubSeq(f.sig, 1, 1))
                 \o (IF n > 1 THEN <<".">> \o DigitsText(SubSeq(f.sig, 2, n)) ELSE <<>>)
                 \o <<"e">> \o etext
            ELSE IF f.decpt <= 0
            THEN <<"0", ".">> \o Zeros(-f.decpt) \o DigitsText(f.sig)
            ELSE IF f.decpt < n
            THEN DigitsText(SubSeq(f.sig, 1, f.decpt)) \o <<".">>
                 \o DigitsText(SubSeq(f.sig, f.decpt + 1, n))
            ELSE DigitsText(f.sig) \o Zeros(f.decpt - n) \o <<".", "0">>
    IN  sign \o body

\* str(value) of a value that is not missing.
StrOf(value) ==
    CASE value.kind = "str" -> value.text
      [] value.kind = "int" -> IntText(value.n)
      [] value.kind = "float" -> FloatText(value)

\* re.sub(pattern, "", s): s without the characters the pattern matches.
re_sub_D(s) == SelectSeq(s, LAMBDA c : ~re_D(c))

KeyLen == 9

\* s[-n:]
SliceLast(s, n) == SubSeq(s, Max(1, Len(s) - n + 1), Len(s))

extract_last_nine_digits(value) ==
    IF pd_isna(value) THEN <<>>
    ELSE LET digits == re_sub_D(StrOf(value))
         IN  SliceLast(digits, KeyLen)

(***************************************************************************)
(* The inputs of the calls of extract_last_nine_digits that are checked.   *)
(***************************************************************************)
Chunks ==
    { <<"+", "2", "5", "5">>, <<"0">>, <<"7", "1", "2">>, <<"3", "4", "5">>,
      <<"6", "7", "8">>, <<"-">>, <<" ">>, <<"N", "/", "A">>, <<"U+0667">> }

RECURSIVE Texts(_)
Texts(k) ==
    IF k = 0 THEN {<<>>}
    ELSE LET shorter == Texts(k - 1)
         IN  shorter \cup {t \o c : t \in shorter, c \in Chunks}

IntValues == {PyInt(n) : n \in {0, 7, 1234, -1234, 712345678, 1712345678, -2000000001}}

FloatValues ==
    {PyFloat(FALSE, <<0>>, 1)} \cup
    { PyFloat(neg, sig, decpt) :
        neg \in BOOLEAN,
        sig \in {<<1>>, <<1, 5>>, <<1, 2, 3, 4>>, <<7, 1, 2, 3, 4, 5, 6, 7, 8>>},
        decpt \in {-4, -3, 0, 1, 4, 9, 12, 16, 17, 22} }

Values == {NaN} \cup {PyStr(t) : t \in Texts(MaxChunks)} \cup IntValues \cup FloatValues

NInit ==
    /\ nvalue \in Values
    /\ nresult = <<>>
    /\ npc = "call"

Normalize ==
    /\ npc = "call"
    /\ nresult' = extract_last_nine_digits(nvalue)
    /\ npc' = "returned"
    /\ UNCHANGED nvalue

(***************************************************************************)
(* DataFrames: the column names in order and the rows, each a sequence of  *)
(* cells aligned with the columns.  Positions are 1-based here, 0-based in *)
(* the source.                                                             *)
(***************************************************************************)
NoFile == [exists |-> FALSE]

DataFrame(columns, rows) == [exists |-> TRUE, columns |-> columns, rows |-> rows]

\* A float64 cell holding v.
Num(v) == [kind |-> "float64", v |-> v]

Range(s) == {s[i] : i \in 1..Len(s)}

\* The 0-based positions the phone columns are expected at.
ExpectedPhoneIdx == 18

ExpectedMobileIdx == 3

\* Mutant of ColumnIndex: the phone columns read at their expected positions.
ColumnIndex_ByPosition(df, name) ==
    IF name = "Phone Number" THEN ExpectedPhoneIdx + 1
    ELSE IF name = "mobile" THEN ExpectedMobileIdx + 1
    ELSE CHOOSE i \in 1..Len(df.columns) : df.columns[i] = name

\* list(df.columns).index(name), plus one.
ColumnIndex(df, name) == CHOOSE i \in 1..Len(df.columns) : df.columns[i] = name

\* df[name]
Column(df, name) == [r \in 1..Len(df.rows) |-> df.rows[r][ColumnIndex(df, name)]]

\* df[name] = values: an existing column is overwritten where it stands, a
\* new one is appended.
SetColumn(df, name, values) ==
    IF name \in Range(df.columns)
    THEN [df EXCEPT !.rows = [r \in 1..Len(df.rows) |->
                                [df.rows[r] EXCEPT ![ColumnIndex(df, name)] = values[r]]]]
    ELSE [df EXCEPT !.columns = Append(df.columns, name),
                    !.rows = [r \in 1..Len(df.rows) |-> Append(df.rows[r], values[r])]]

RemoveAt(s, i) == SubSeq(s, 1, i - 1) \o SubSeq(s, i + 1, Len(s))

\* df.drop(columns=[name], inplace=True)
DropColumn(df, name) ==
    LET i == ColumnIndex(df, name)
    IN  [df EXCEPT !.columns = RemoveAt(df.columns, i),
                   !.rows = [r \in 1..Len(df.rows) |-> RemoveAt(df.rows[r], i)]]

\* series.map(extract_last_nine_digits)
Last9Series(series) == [r \in 1..Len(series) |-> extract_last_nine_digits(series[r])]

(***************************************************************************)
(* pd.to_numeric(series, errors="coerce").fillna(0.0)                      *)
(***************************************************************************)
RECURSIVE NatValue(_)
NatValue(t) ==
    IF t = <<>> THEN 0
    ELSE 10 * NatValue(SubSeq(t, 1, Len(t) - 1))
         + (CHOOSE d \in 0..9 : DigitChars[d + 1] = t[Len(t)])

\* The number a text parses to, or NaN: an optional sign and decimal digits.
ParseNumeric(t) ==
    LET signed == t # <<>> /\ t[1] \in {"-", "+"}
        body == IF signed THEN SubSeq(t, 2, Len(t)) ELSE t
    IN  IF body # <<>> /\ \A i \in 1..Len(body) : body[i] \in AsciiDigits
        THEN Num(IF signed /\ t[1] = "-" THEN -NatValue(body) ELSE NatValue(body))
        ELSE NaN

to_numeric(cell) ==
    CASE cell.kind = "nan" -> NaN
      [] cell.kind = "str" -> ParseNumeric(cell.text)
      [] cell.kind = "int" -> Num(cell.n)
      [] cell.kind = "float64" -> cell

fillna(cell, v) == IF pd_isna(cell) THEN Num(v) ELSE cell

\* The float values of pd.to_numeric(series, errors="coerce").fillna(0.0).
CoercedAmounts(series) == [r \in 1..Len(series) |-> fillna(to_numeric(series[r]), 0).v]

RECURSIVE SeriesSum(_)
SeriesSum(series) ==
    IF series = <<>> THEN 0
    ELSE SeriesSum(SubSeq(series, 1, Len(series) - 1)) + series[Len(series)]

(***************************************************************************)
(* compute_phone_aggregates and the lookups of main.                       *)
(***************************************************************************)
REPAYMENTS_PATH == "Repayments.xlsx"

WRITEOFFS_PATH == "writeoffs.xlsx"

\* Mutant of value_counts: rows with an empty key are dropped.
RECURSIVE value_counts_DropEmpty(_)
value_counts_DropEmpty(keys) ==
    IF keys = <<>> THEN <<>>
    ELSE LET acc == value_counts_DropEmpty(SubSeq(keys, 1, Len(keys) - 1))
             k == keys[Len(keys)]
         IN  IF k = <<>> THEN acc
             ELSE IF k \in DOMAIN acc THEN [acc EXCEPT ![k] = @ + 1] ELSE acc @@ (k :> 1)

\* series.value_counts(dropna=False): one pass over the keys, a counter per key.
RECURSIVE value_counts(_)
value_counts(keys) ==
    IF keys = <<>> THEN <<>>
    ELSE LET acc == value_counts(SubSeq(keys, 1, Len(keys) - 1))
             k == keys[Len(keys)]
         IN  IF k \in DOMAIN acc THEN [acc EXCEPT ![k] = @ + 1] ELSE acc @@ (k :> 1)

\* Mutant of groupby_sum: the last amount of a key replaces the earlier ones.
RECURSIVE groupby_sum_Last(_, _)
groupby_sum_Last(keys, amounts) ==
    IF keys = <<>> THEN <<>>
    ELSE LET n == Len(keys)
             acc == groupby_sum_Last(SubSeq(keys, 1, n - 1), SubSeq(amounts, 1, n - 1))
             k == keys[n]
         IN  IF k \in DOMAIN acc THEN [acc EXCEPT ![k] = amounts[n]]
             ELSE acc @@ (k :> amounts[n])

\* DataFrame({"k": keys, "v": amounts}).groupby("k", dropna=False)["v"].sum()
RECURSIVE groupby_sum(_, _)
groupby_sum(keys, amounts) ==
    IF keys = <<>> THEN <<>>
    ELSE LET n == Len(keys)
             acc == groupby_sum(SubSeq(keys, 1, n - 1), SubSeq(amounts, 1, n - 1))
             k == keys[n]
         IN  IF k \in DOMAIN acc THEN [acc EXCEPT ![k] = @ + amounts[n]]
             ELSE acc @@ (k :> amounts[n])

\* Mutant of Series_get: the empty key is never looked up.
Series_get_SkipEmpty(series, key, default) ==
    IF key # <<>> /\ key \in DOMAIN series THEN series[key] ELSE default

\* series.get(key, default)
Series_get(series, key, default) == IF key \in DOMAIN series THEN series[key] ELSE default

\* The streamlit call fn(arg).
Ev(fn, arg) == [fn |-> fn, arg |-> arg]

\* a / b on floats: the quotient (as a fraction), or ZeroDivisionError.
TrueDiv(a, b) ==
    IF b = 0 THEN [raised |-> TRUE, num |-> 0, den |-> 0]
    ELSE [raised |-> FALSE, num |-> a, den |-> b]

Times(q, k) == [q EXCEPT !.num = @ * k]

\* Mutant of percent_repaid: the guard lets a total of 0 through.
percent_repaid_GuardGeq(total_repaid_for_writeoffs, total_written_off) ==
    IF total_written_off >= 0
    THEN Times(TrueDiv(total_repaid_for_writeoffs, total_written_off), 100)
    ELSE [raised |-> FALSE, num |-> 0, den |-> 1]

\* (total_repaid / total_written_off * 100.0) if total_written_off > 0 else 0.0
percent_repaid(total_repaid_for_writeoffs, total_written_off) ==
    IF total_written_off > 0
    THEN Times(TrueDiv(total_repaid_for_writeoffs, total_written_off), 100)
    ELSE [raised |-> FALSE, num |-> 0, den |-> 1]

\* writeoffs_df.copy() gives main a frame of its own; without it the frame
\* that is augmented would be the object load_data returned.
CopiesBeforeAugment == TRUE

Unbound == [exists |-> FALSE]

(***************************************************************************)
(* main(), one action per step.                                            *)
(***************************************************************************)
\* set_page_config, title, and the check that both files exist.
CheckFiles ==
    /\ pc = "start"
    /\ LET paths == <<REPAYMENTS_PATH, WRITEOFFS_PATH>>
           missing_files == SelectSeq(paths, LAMBDA p : ~disk[p].exists)
       IN  IF missing_files # <<>>
           THEN /\ ui' = ui \o <<Ev("title", {}), Ev("error", Range(missing_files))>>
                /\ pc' = "halt"
           ELSE /\ ui' = ui \o <<Ev("title", {})>>
                /\ pc' = "load"
    /\ UNCHANGED <<disk, loaded, repayments_df, writeoffs_df, counts, sums, kpi>>

\* load_data: both files read with dtype=str.
LoadData ==
    /\ pc = "load"
    /\ loaded' = [set |-> TRUE, repayments |-> disk[REPAYMENTS_PATH],
                                writeoffs |-> disk[WRITEOFFS_PATH]]
    /\ repayments_df' = disk[REPAYMENTS_PATH]
    /\ writeoffs_df' = disk[WRITEOFFS_PATH]
    /\ pc' = "aggregate"
    /\ UNCHANGED <<disk, counts, sums, kpi, ui>>

\* compute_phone_aggregates(repayments_df) and main's except clause.
ComputePhoneAggregates ==
    /\ pc = "aggregate"
    /\ LET repayments == repayments_df
           cols == Range(repayments.columns)
       IN  IF "Phone Number" \notin cols
           THEN /\ ui' = Append(ui, Ev("error", {"Phone Number"}))
                /\ pc' = "halt"
                /\ UNCHANGED <<counts, sums>>
           ELSE IF "Total Repaid:" \notin cols
           THEN /\ ui' = Append(ui, Ev("error", {"Total Repaid:"}))
                /\ pc' = "halt"
                /\ UNCHANGED <<counts, sums>>
           ELSE LET col_idx == ColumnIndex(repayments, "Phone Number") - 1
                    repayments_last9 == Last9Series(Column(repayments, "Phone Number"))
                    amounts == CoercedAmounts(Column(repayments, "Total Repaid:"))
                IN  /\ ui' = IF col_idx # ExpectedPhoneIdx
                             THEN Append(ui, Ev("warning", {"Phone Number"}))
                             ELSE ui
                    /\ counts' = value_counts(repayments_last9)
                    /\ sums' = groupby_sum(repayments_last9, amounts)
                    /\ pc' = "check_mobile"
    /\ UNCHANGED <<disk, loaded, repayments_df, writeoffs_df, kpi>>

\* The check for the mobile column and the warning about its position.
CheckMobile ==
    /\ pc = "check_mobile"
    /\ IF "mobile" \notin Range(writeoffs_df.columns)
       THEN /\ ui' = Append(ui, Ev("error", {"mobile"}))
            /\ pc' = "halt"
       ELSE LET w_col_idx == ColumnIndex(writeoffs_df, "mobile") - 1
            IN  /\ ui' = IF w_col_idx # ExpectedMobileIdx
                         THEN Append(ui, Ev("warning", {"mobile"}))
                         ELSE ui
                /\ pc' = "augment"
    /\ UNCHANGED <<disk, loaded, repayments_df, writeoffs_df, counts, sums, kpi>>

\* The frame main works on after the two derived columns are attached,
\* given the two lookup tables.
Augmented(df, phone_last9_counts, phone_last9_amount_sums) ==
    LET n == Len(df.rows)
        df1 == SetColumn(df, "last9_mobile", Last9Series(Column(df, "mobile")))
        x1 == Column(df1, "last9_mobile")
        df2 == SetColumn(df1, "Repayment Phone Matches",
                         [r \in 1..n |-> PyInt(Series_get(phone_last9_counts, x1[r], 0))])
        x2 == Column(df2, "last9_mobile")
        df3 == SetColumn(df2, "amount repayed",
                         [r \in 1..n |-> Num(Series_get(phone_last9_amount_sums, x2[r], 0))])
    IN  DropColumn(df3, "last9_mobile")

\* The copy, the temporary key column, the two derived columns, the drop.
Augment ==
    /\ pc = "augment"
    /\ writeoffs_df' = Augmented(writeoffs_df, counts, sums)
    /\ loaded' = IF CopiesBeforeAugment THEN loaded
                 ELSE [loaded EXCEPT !.writeoffs = Augmented(writeoffs_df, counts, sums)]
    /\ pc' = "kpi"
    /\ UNCHANGED <<disk, repayments_df, counts, sums, kpi, ui>>

\* The four figures of the KPI cards, from the augmented frame.
KpiOf(df) ==
    LET total_written_off ==
            SeriesSum(CoercedAmounts(Column(df, "Total Writtenoff Derived")))
        total_repaid_for_writeoffs ==
            SeriesSum(CoercedAmounts(Column(df, "amount repayed")))
    IN  [set |-> TRUE,
         num_writeoffs |-> Len(df.rows),
         total_written_off |-> total_written_off,
         total_repaid_for_writeoffs |-> total_repaid_for_writeoffs,
         percent_repaid |-> percent_repaid(total_repaid_for_writeoffs, total_written_off)]

\* Mutant of Kpi: the except clause reports the column and does not return.
Kpi_NoReturn ==
    /\ pc = "kpi"
    /\ IF "Total Writtenoff Derived" \notin Range(writeoffs_df.columns)
       THEN /\ ui' = Append(ui, Ev("error", {"Total Writtenoff Derived"}))
            /\ kpi' = [set |-> TRUE, num_writeoffs |-> Len(writeoffs_df.rows),
                       total_written_off |-> 0, total_repaid_for_writeoffs |-> 0,
                       percent_repaid |-> percent_repaid(0, 0)]
       ELSE /\ kpi' = KpiOf(writeoffs_df)
            /\ UNCHANGED ui
    /\ pc' = "render"
    /\ UNCHANGED <<disk, loaded, repayments_df, writeoffs_df, counts, sums>>

\* The KPI step: a missing written-off column is reported and ends the run.
Kpi ==
    /\ pc = "kpi"
    /\ IF "Total Writtenoff Derived" \notin Range(writeoffs_df.columns)
       THEN /\ ui' = Append(ui, Ev("error", {"Total Writtenoff Derived"}))
            /\ pc' = "halt"
            /\ UNCHANGED kpi
       ELSE /\ kpi' = KpiOf(writeoffs_df)
            /\ pc' = "render"
            /\ UNCHANGED ui
    /\ UNCHANGED <<disk, loaded, repayments_df, writeoffs_df, counts, sums>>

\* The four metrics, the table and the download button.
Render ==
    /\ pc = "render"
    /\ ui' = ui \o << Ev("metric", <<"Number of write-offs", kpi.num_writeoffs>>),
                      Ev("metric", <<"Total amount written off", kpi.total_written_off>>),
                      Ev("metric", <<"Total repaid write-offs", kpi.total_repaid_for_writeoffs>>),
                      Ev("metric", <<"% of repaid write-offs", kpi.percent_repaid>>),
                      Ev("subheader", {}),
                      Ev("dataframe", writeoffs_df),
                      Ev("download_button", writeoffs_df) >>
    /\ pc' = "done"
    /\ UNCHANGED <<disk, loaded, repayments_df, writeoffs_df, counts, sums, kpi>>

(***************************************************************************)
(* The files the runs start from.  read_excel(dtype=str) yields cells that *)
(* are text or missing, and column names that are distinct.                *)
(***************************************************************************)
Filler == PyStr(<<"4", "2">>)

\* A row of a table with these columns: the named cells, fillers elsewhere.
MkRow(columns, cells) ==
    [i \in 1..Len(columns) |->
        IF columns[i] \in DOMAIN cells THEN cells[columns[i]] ELSE Filler]

MkTable(columns, cellrows) ==
    DataFrame(columns, [r \in 1..Len(cellrows) |-> MkRow(columns, cellrows[r])])

Fillers18 ==
    <<"A", "B", "C", "D", "E", "F", "G", "H", "I", "J", "K", "L", "M", "N", "O", "P",
      "Q", "R">>

RepStd == Fillers18 \o <<"Phone Number", "Total Repaid:">>

RepMoved == <<"Phone Number">> \o Fillers18 \o <<"Total Repaid:">>

RepGoodLayouts == {RepStd, RepMoved}

RepBadLayouts ==
    { Fillers18 \o <<"Phone", "Total Repaid:">>,
      Fillers18 \o <<"Phone Number", "Total Repaid">>,
      Fillers18 \o <<"Phone", "Total Repaid">> }

WoStd == <<"id", "name", "branch", "mobile", "Total Writtenoff Derived">>

WoMoved == <<"mobile", "id", "name", "branch", "Total Writtenoff Derived">>

WoGoodLayouts == {WoStd, WoMoved}

\* Write-offs files that already have a column named like a derived one.
WoCollidingLayouts ==
    { <<"id", "name", "last9_mobile", "mobile", "Total Writtenoff Derived">>,
      <<"id", "name", "amount repayed", "mobile", "Total Writtenoff Derived">>,
      <<"id", "Repayment Phone Matches", "branch", "mobile", "Total Writtenoff Derived">> }

WoBadLayouts ==
    { <<"id", "name", "branch", "phone", "Total Writtenoff Derived">>,
      <<"id", "name", "branch", "mobile", "Total Writtenoff">>,
      <<"id", "name", "branch", "phone", "Total Writtenoff">> }

T0712345678 == <<"0", "7", "1", "2", "3", "4", "5", "6", "7", "8">>

T255712345678 == <<"2", "5", "5", "7", "1", "2", "3", "4", "5", "6", "7", "8">>

TPlus255712345678 == <<"+">> \o T255712345678

T0700000001 == <<"0", "7", "0", "0", "0", "0", "0", "0", "0", "1">>

TNA == <<"N", "/", "A">>

RepCells(phone, amount) == ("Phone Number" :> phone) @@ ("Total Repaid:" :> amount)

RepRowPool ==
    { RepCells(PyStr(T0712345678), PyStr(<<"1", "0", "0">>)),
      RepCells(PyStr(T255712345678), PyStr(<<"5", "0">>)),
      RepCells(NaN, PyStr(<<"a", "b", "c">>)),
      RepCells(PyStr(TNA), PyStr(<<"2", "5">>)) }

WoCells(mobile, amount) == ("mobile" :> mobile) @@ ("Total Writtenoff Derived" :> amount)

WoRowPool ==
    { WoCells(PyStr(TPlus255712345678), PyStr(<<"2", "0", "0">>)),
      WoCells(NaN, PyStr(<<"a", "b", "c">>)),
      WoCells(PyStr(<<"0", "7", "9", "9">>), PyStr(<<"-", "3", "0", "0">>)) }

SeqsUpTo(pool, n) == UNION {[1..k -> pool] : k \in 0..n}

RepFixture ==
    << RepCells(PyStr(T0712345678), PyStr(<<"1", "0", "0">>)),
       RepCells(PyStr(T255712345678), PyStr(<<"5", "0">>)),
       RepCells(NaN, PyStr(<<"a", "b", "c">>)),
       RepCells(PyStr(T0700000001), NaN) >>

WoFixture ==
    << WoCells(PyStr(TPlus255712345678), PyStr(<<"2", "0", "0">>)),
       WoCells(PyStr(TNA), NaN) >>

Disk(rep, wo) == (REPAYMENTS_PATH :> rep) @@ (WRITEOFFS_PATH :> wo)

\* Both files well formed (a phone column possibly out of place), any rows.
GoodDisks ==
    { Disk(MkTable(rc, rr), MkTable(wc, wr)) :
        rc \in RepGoodLayouts, rr \in SeqsUpTo(RepRowPool, MaxRep),
        wc \in WoGoodLayouts, wr \in SeqsUpTo(WoRowPool, MaxWo) }

\* A file missing, a column missing or a column name taken: fixed rows.
OddDisks ==
    { Disk(rep, wo) :
        rep \in {NoFile} \cup {MkTable(rc, RepFixture) : rc \in RepGoodLayouts \cup RepBadLayouts},
        wo \in {NoFile} \cup {MkTable(wc, WoFixture) :
                    wc \in WoGoodLayouts \cup WoBadLayouts \cup WoCollidingLayouts} }

MInit ==
    /\ pc = "start"
    /\ disk \in GoodDisks \cup OddDisks
    /\ loaded = [set |-> FALSE]
    /\ repayments_df = Unbound
    /\ writeoffs_df = Unbound
    /\ counts = <<>>
    /\ sums = <<>>
    /\ kpi = [set |-> FALSE]
    /\ ui = <<>>

\* The specification of a run of main().
Init ==
    /\ MInit
    /\ nvalue = NaN
    /\ nresult = <<>>
    /\ npc = "idle"

Next ==
    \/ CheckFiles /\ UNCHANGED nvars
    \/ LoadData /\ UNCHANGED nvars
    \/ ComputePhoneAggregates /\ UNCHANGED nvars
    \/ CheckMobile /\ UNCHANGED nvars
    \/ Augment /\ UNCHANGED nvars
    \/ Kpi /\ UNCHANGED nvars
    \/ Render /\ UNCHANGED nvars

Spec == Init /\ [][Next]_vars

\* The specification of one call of extract_last_nine_digits.
InitNormalize ==
    /\ NInit
    /\ pc = "off"
    /\ disk = Disk(NoFile, NoFile)
    /\ loaded = [set |-> FALSE]
    /\ repayments_df = Unbound
    /\ writeoffs_df = Unbound
    /\ counts = <<>>
    /\ sums = <<>>
    /\ kpi = [set |-> FALSE]
    /\ ui = <<>>

NextNormalize == Normalize /\ UNCHANGED mvars

SpecNormalize == InitNormalize /\ [][NextNormalize]_vars

(***************************************************************************)
(* Properties of extract_last_nine_digits (under SpecNormalize).           *)
(***************************************************************************)
IsNumber(value) == value.kind \in {"int", "float"}

\* The characters 0-9 of a text, in order.
AsciiDigitsOf(t) == SelectSeq(t, LAMBDA c : c \in AsciiDigits)

\* The last 9 characters of d, or d when it has at most 9.
Last9(d) == IF Len(d) <= 9 THEN d ELSE SubSeq(d, Len(d) - 8, Len(d))

\* C1: every call returns a string of 0 to 9 characters, each one of the
\* decimal digits 0-9, whatever the characters of the input.
C1_OnlyAsciiDigits ==
    npc = "returned" =>
        /\ Len(nresult) <= 9
        /\ \A i \in 1..Len(nresult) : nresult[i] \in AsciiDigits

\* What holds in place of C1: at most 9 characters, each a Unicode decimal
\* digit, and only 0-9 when the input has no digit outside ASCII.
C1_OnlyUnicodeDigits ==
    npc = "returned" =>
        /\ Len(nresult) <= 9
        /\ \A i \in 1..Len(nresult) : nresult[i] \in AsciiDigits \cup UnicodeDigits
        /\ (~pd_isna(nvalue) /\ Range(StrOf(nvalue)) \cap UnicodeDigits = {})
              => \A i \in 1..Len(nresult) : nresult[i] \in AsciiDigits

\* C2: for a value that is not missing the call returns d, the characters
\* 0-9 of its text in order, when d has at most 9 characters, and the last 9
\* characters of d otherwise; for a missing value it returns the empty string.
C2_LastNineOfAsciiDigits ==
    npc = "returned" =>
        IF pd_isna(nvalue) THEN nresult = <<>>
        ELSE nresult = Last9(AsciiDigitsOf(StrOf(nvalue)))

\* What holds in place of C2: the same, for texts with no digit outside ASCII.
C2_LastNineWhenAscii ==
    (npc = "returned" /\ ~pd_isna(nvalue)
        /\ Range(StrOf(nvalue)) \cap UnicodeDigits = {})
        => nresult = Last9(AsciiDigitsOf(StrOf(nvalue)))

\* The digits a person would type for a number with no fractional part.
PlainDigits(value) ==
    IF value.kind = "int" THEN NatText(Abs(value.n))
    ELSE DigitsText(value.sig) \o Zeros(value.decpt - Len(value.sig))

IsWhole(value) ==
    \/ value.kind = "int"
    \/ value.kind = "float" /\ value.decpt >= Len(value.sig)

\* C10: for a number the call returns the last 9 of the digits a person
\* would type for it: no digit comes from a decimal point, a fractional part
\* or an exponent (1234 gives "1234").
C10_PlainDigitsOfNumbers ==
    (npc = "returned" /\ IsNumber(nvalue) /\ IsWhole(nvalue))
        => nresult = Last9(PlainDigits(nvalue))

\* What holds in place of C10: the claim for int arguments.
C10_PlainDigitsOfInts ==
    (npc = "returned" /\ nvalue.kind = "int") => nresult = Last9(PlainDigits(nvalue))

(***************************************************************************)
(* Properties of a run of main() (under Spec), stated against the files    *)
(* by direct scan of their rows.                                           *)
(***************************************************************************)
SrcRep == disk[REPAYMENTS_PATH]

SrcWo == disk[WRITEOFFS_PATH]

\* The cell of row r under the column called name.
CellAt(table, r, name) ==
    table.rows[r][CHOOSE i \in 1..Len(table.columns) : table.columns[i] = name]

Has(table, name) == table.exists /\ \E i \in 1..Len(table.columns) : table.columns[i] = name

RepRows == 1..Len(SrcRep.rows)

WoRows == 1..Len(SrcWo.rows)

RepKey(r) == extract_last_nine_digits(CellAt(SrcRep, r, "Phone Number"))

WoKey(r) == extract_last_nine_digits(CellAt(SrcWo, r, "mobile"))

\* The amount of a cell, an unparseable or missing one counted as 0.
AmountOf(cell) == IF pd_isna(to_numeric(cell)) THEN 0 ELSE to_numeric(cell).v

RepAmount(r) == AmountOf(CellAt(SrcRep, r, "Total Repaid:"))

RECURSIVE SumOver(_, _)
SumOver(f, S) ==
    IF S = {} THEN 0
    ELSE LET x == CHOOSE y \in S : TRUE IN f[x] + SumOver(f, S \ {x})

\* The repayment rows with key k, and the sum of their amounts.
ScanRows(k) == {r \in RepRows : RepKey(r) = k}

ScanSum(k) == SumOver([r \in RepRows |-> RepAmount(r)], ScanRows(k))

Aggregated == pc \in {"check_mobile", "augment", "kpi", "render", "done"}

Attached == pc \in {"kpi", "render", "done"}

Summarised == pc \in {"render", "done"}

UiCalls(fn) == {i \in 1..Len(ui) : ui[i].fn = fn}

OutputCalls == UNION {UiCalls(fn) : fn \in {"metric", "subheader", "dataframe", "download_button"}}

\* C3: the count table maps each normalized key, the empty one included, to
\* the number of repayment rows with that key, has no other key, and its
\* values sum to the number of repayment rows.
C3_CountTable ==
    Aggregated =>
        /\ DOMAIN counts = {RepKey(r) : r \in RepRows}
        /\ \A k \in DOMAIN counts : counts[k] = Cardinality(ScanRows(k))
        /\ SumOver(counts, DOMAIN counts) = Len(SrcRep.rows)

C3_Witness ==
    /\ Aggregated
    /\ <<>> \in DOMAIN counts
    /\ \E k \in DOMAIN counts : Len(k) = 9 /\ counts[k] = 2

\* C4: the match count attached to a write-off row is an integer >= 0, the
\* number of repayment rows whose key equals the row's key: 0 when there is
\* none, and for a missing or digit-free mobile the number of repayment rows
\* whose phone is missing or digit-free.
C4_MatchCount ==
    Attached =>
        \A r \in WoRows :
            LET cell == CellAt(writeoffs_df, r, "Repayment Phone Matches")
            IN  /\ cell.kind = "int"
                /\ cell.n >= 0
                /\ cell.n = Cardinality(ScanRows(WoKey(r)))
                /\ WoKey(r) = <<>> =>
                      cell.n = Cardinality({q \in RepRows :
                                  extract_last_nine_digits(
                                      CellAt(SrcRep, q, "Phone Number")) = <<>>})

C4_Witness ==
    /\ Attached
    /\ \E r \in WoRows :
          /\ pd_isna(CellAt(SrcWo, r, "mobile"))
          /\ CellAt(writeoffs_df, r, "Repayment Phone Matches").n = 2
    /\ \E r \in WoRows : CellAt(writeoffs_df, r, "Repayment Phone Matches").n = 0

\* C5: the amount attached to a write-off row is the sum of the repaid
\* amounts of the repayment rows with the row's key, an unparseable or
\* missing amount counted as 0.0; it is 0.0 when there is no such row, and a
\* repayment row with an unparseable amount is still counted.
C5_AmountRepaid ==
    /\ Aggregated =>
          /\ DOMAIN sums = DOMAIN counts
          /\ \A q \in RepRows : RepKey(q) \in DOMAIN counts /\ counts[RepKey(q)] >= 1
    /\ Attached =>
          \A r \in WoRows :
              LET cell == CellAt(writeoffs_df, r, "amount repayed")
              IN  /\ cell.kind = "float64"
                  /\ cell.v = ScanSum(WoKey(r))
                  /\ ScanRows(WoKey(r)) = {} => cell.v = 0

C5_Witness ==
    /\ Attached
    /\ \E r \in WoRows : CellAt(writeoffs_df, r, "amount repayed").v = 150
    /\ \E r \in WoRows :
          /\ CellAt(writeoffs_df, r, "amount repayed").v = 0
          /\ \E q \in ScanRows(WoKey(r)) :
                pd_isna(to_numeric(CellAt(SrcRep, q, "Total Repaid:")))

\* The two totals by direct scan of the files.
ScanWrittenOff ==
    SumOver([r \in WoRows |-> AmountOf(CellAt(SrcWo, r, "Total Writtenoff Derived"))], WoRows)

ScanRepaid == SumOver([r \in WoRows |-> ScanSum(WoKey(r))], WoRows)

\* C6: percent_repaid is total_repaid_for_writeoffs / total_written_off * 100
\* when total_written_off > 0 and 0.0 otherwise, whatever was repaid, and no
\* division by zero occurs; the two totals are the sums over the write-off rows.
C6_PercentRepaid ==
    Summarised =>
        LET q == kpi.percent_repaid
        IN  /\ kpi.total_written_off = ScanWrittenOff
            /\ kpi.total_repaid_for_writeoffs = ScanRepaid
            /\ ~q.raised
            /\ q.den # 0
            /\ ScanWrittenOff > 0 => q.num * ScanWrittenOff = ScanRepaid * 100 * q.den
            /\ ScanWrittenOff <= 0 => q.num = 0

C6_Witness ==
    /\ Summarised
    /\ kpi.total_written_off = 0
    /\ kpi.total_repaid_for_writeoffs > 0
    /\ kpi.percent_repaid.num = 0

\* C7: for every write-offs file with a mobile column, whatever its other
\* columns, the augmented table has the rows and the columns of the file,
\* unchanged and in order, followed by exactly the match count and the amount
\* repaid; the loaded write-offs dataset is not mutated.
C7_FrameOfAugment ==
    Attached =>
        /\ writeoffs_df.columns = SrcWo.columns \o <<"Repayment Phone Matches", "amount repayed">>
        /\ Len(writeoffs_df.rows) = Len(SrcWo.rows)
        /\ \A r \in WoRows :
              SubSeq(writeoffs_df.rows[r], 1, Len(SrcWo.columns)) = SrcWo.rows[r]
        /\ loaded.writeoffs = SrcWo

DerivedNames == {"last9_mobile", "Repayment Phone Matches", "amount repayed"}

\* What holds in place of C7: the claim for files none of whose columns has
\* the name of a derived or of the temporary column.
C7_FrameWithoutCollision ==
    (Attached /\ Range(SrcWo.columns) \cap DerivedNames = {}) => C7_FrameOfAugment

(***************************************************************************)
(* Fatal and non-fatal precondition violations.                            *)
(***************************************************************************)
MissingFiles == {p \in {REPAYMENTS_PATH, WRITEOFFS_PATH} : ~disk[p].exists}

\* The first required column the files lack, in the order main looks.
MissingColumn ==
    IF MissingFiles # {} THEN "none"
    ELSE IF ~Has(SrcRep, "Phone Number") THEN "Phone Number"
    ELSE IF ~Has(SrcRep, "Total Repaid:") THEN "Total Repaid:"
    ELSE IF ~Has(SrcWo, "mobile") THEN "mobile"
    ELSE IF ~Has(SrcWo, "Total Writtenoff Derived") THEN "Total Writtenoff Derived"
    ELSE "none"

Fatal == MissingFiles # {} \/ MissingColumn # "none"

Errors == {ui[i].arg : i \in UiCalls("error")}

\* C8: a run with a missing file or a missing required column surfaces
\* exactly one error message, which names the missing file(s) or the column,
\* and stops with no metric, table or download; with a file missing, all
\* missing files are named and nothing is loaded or computed.
C8_FatalStops ==
    /\ Fatal =>
          /\ pc \notin {"render", "done"}
          /\ OutputCalls = {}
          /\ ~kpi.set
          /\ ~ENABLED Next => pc = "halt"
    /\ pc = "halt" =>
          /\ Fatal
          /\ ~ENABLED Next
          /\ Cardinality(UiCalls("error")) = 1
          /\ Errors = {IF MissingFiles # {} THEN MissingFiles ELSE {MissingColumn}}
    /\ pc # "halt" => UiCalls("error") = {}
    /\ MissingFiles # {} =>
          /\ ~loaded.set
          /\ repayments_df = Unbound /\ writeoffs_df = Unbound
          /\ counts = <<>> /\ sums = <<>>
          /\ pc \in {"start", "halt"}

C8_Witness ==
    /\ pc = "halt"
    /\ Errors = {{"Total Writtenoff Derived"}}
    /\ "amount repayed" \in Range(writeoffs_df.columns)

PreconditionsHold == ~Fatal

PhoneMoved ==
    /\ Has(SrcRep, "Phone Number")
    /\ SrcRep.columns[ExpectedPhoneIdx + 1] # "Phone Number"

MobileMoved ==
    /\ Has(SrcWo, "mobile")
    /\ SrcWo.columns[ExpectedMobileIdx + 1] # "mobile"

\* The table with the column called name moved to the 0-based position idx.
Relocate(table, name, idx) ==
    LET n == Len(table.columns)
        i == CHOOSE j \in 1..n : table.columns[j] = name
        rest == RemoveAt([j \in 1..n |-> j], i)
        perm == SubSeq(rest, 1, idx) \o <<i>> \o SubSeq(rest, idx + 1, n - 1)
    IN  DataFrame([j \in 1..n |-> table.columns[perm[j]]],
                  [r \in 1..Len(table.rows) |-> [j \in 1..n |-> table.rows[r][perm[j]]]])

\* What a run yields from the same files with the phone columns in place.
InPlaceRep == Relocate(SrcRep, "Phone Number", ExpectedPhoneIdx)

InPlaceWo == Relocate(SrcWo, "mobile", ExpectedMobileIdx)

InPlaceAugmented ==
    LET keys == Last9Series(Column(InPlaceRep, "Phone Number"))
        amounts == CoercedAmounts(Column(InPlaceRep, "Total Repaid:"))
    IN  Augmented(InPlaceWo, value_counts(keys), groupby_sum(keys, amounts))

Warnings == {ui[i].arg : i \in UiCalls("warning")}

\* C9: a phone column present by name but out of place does not abort the
\* run: a warning is emitted, the run goes on to the full output, and the
\* derived columns and the scalars are those of the same files with the
\* column at its expected position.
C9_MisplacedColumn ==
    /\ PreconditionsHold =>
          /\ pc # "halt"
          /\ Errors = {}
    /\ Aggregated => ({"Phone Number"} \in Warnings <=> PhoneMoved)
    /\ pc \in {"augment", "kpi", "render", "done"} => ({"mobile"} \in Warnings <=> MobileMoved)
    /\ (pc = "done" /\ (PhoneMoved \/ MobileMoved)) =>
          /\ Cardinality(UiCalls("metric")) = 4
          /\ \E i \in UiCalls("dataframe") : ui[i].arg = writeoffs_df
          /\ UiCalls("download_button") # {}
          /\ Column(writeoffs_df, "Repayment Phone Matches")
                = Column(InPlaceAugmented, "Repayment Phone Matches")
          /\ Column(writeoffs_df, "amount repayed")
                = Column(InPlaceAugmented, "amount repayed")
          /\ kpi = KpiOf(InPlaceAugmented)

C9_Witness ==
    /\ pc = "done"
    /\ PhoneMoved /\ MobileMoved
    /\ Warnings = {{"Phone Number"}, {"mobile"}}
    /\ \E r \in WoRows : CellAt(writeoffs_df, r, "Repayment Phone Matches").n = 2
    /\ kpi.total_repaid_for_writeoffs = 150

====
